---- MODULE Spec2Model ----
(***************************************************************************)
(* sphinx_tabs/tabs.py: the tabs, tab, group-tab and code-tab directives.  *)
(*                                                                         *)
(* A document is parsed by recursive descent.  The model keeps the stack   *)
(* of directives whose nested_parse is running, the per-document scratch   *)
(* data of the build environment (env.temp_data and the serial number of   *)
(* env.new_serialno) and the node tree that has been produced.  The next   *)
(* directive of the document is chosen freely at every step, within the    *)
(* layout the directives are written for: a tabs block holds tab,          *)
(* group-tab and code-tab directives, the body of a tab or group-tab may   *)
(* hold further tabs blocks, and any directive may stand at the top level. *)
(*                                                                         *)
(* Text is a sequence of one-character strings.  A class name or a token   *)
(* is a sequence of strings too, so that they can be compared.             *)
(***************************************************************************)
EXTENDS Naturals, Sequences, FiniteSets

\* ---------------------------------------------------------------- bounds
\* nodes (blocks, panels, error messages) one document may produce
MaxNodes == 4
\* directives whose nested parse may be open at one time
MaxDepth == 3
\* characters of a label given to the label-to-id function
MaxLabelLen == 3

\* ------------------------------------------------------------------ text
Range(s) == {s[i] : i \in 1..Len(s)}

\* the whitespace str.split() and str.strip() know, as far as texts use it
IsSpace(c) == c \in {" ", "\t"}

\* str.lower(), on the letters the model's texts use
LowerChar(c) ==
    CASE c = "L" -> "l"
      [] c = "C" -> "c"
      [] c = "T" -> "t"
      [] c = "U" -> "u"
      [] c = "M" -> "m"
      [] c = "E" -> "e"
      [] OTHER -> c

\* the cased characters (letters with a case) of the model's texts; "Sigma",
\* "sigma" and "fsigma" stand for U+03A3, U+03C3 and U+03C2, "DSC" for U+2102
\* (double-struck capital C, an upper-case letter without a lower-case form)
Cased(c) ==
    c \in {"L", "l", "C", "c", "T", "t", "U", "u", "M", "m", "E", "e", "x", "y", "a", "p",
           "Sigma", "sigma", "fsigma", "DSC"}

\* str.lower() of the character at i: a capital sigma that ends a word (a cased
\* character before it, none after it) becomes the final sigma
LowerAt(s, i) ==
    IF s[i] = "Sigma"
    THEN IF (i > 1 /\ Cased(s[i - 1])) /\ ~(i < Len(s) /\ Cased(s[i + 1]))
         THEN "fsigma" ELSE "sigma"
    ELSE LowerChar(s[i])

Lower(s) == [i \in 1..Len(s) |-> LowerAt(s, i)]

\* str.split(): the maximal runs of non-whitespace characters, in order
RECURSIVE SplitFrom(_, _, _, _)
SplitFrom(s, i, cur, acc) ==
    IF i > Len(s)
    THEN IF cur = <<>> THEN acc ELSE Append(acc, cur)
    ELSE IF IsSpace(s[i])
         THEN SplitFrom(s, i + 1, <<>>, IF cur = <<>> THEN acc ELSE Append(acc, cur))
         ELSE SplitFrom(s, i + 1, Append(cur, s[i]), acc)

Split(s) == SplitFrom(s, 1, <<>>, <<>>)

\* sep.join(words)
RECURSIVE Join(_, _)
Join(words, sep) ==
    IF words = <<>> THEN <<>>
    ELSE IF Len(words) = 1 THEN words[1]
    ELSE words[1] \o sep \o Join(Tail(words), sep)

\* str.strip()
RECURSIVE LStrip(_)
LStrip(s) == IF s # <<>> /\ IsSpace(s[1]) THEN LStrip(Tail(s)) ELSE s

RECURSIVE RStrip(_)
RStrip(s) ==
    IF s # <<>> /\ IsSpace(s[Len(s)]) THEN RStrip(SubSeq(s, 1, Len(s) - 1)) ELSE s

Strip(s) == RStrip(LStrip(s))

\* "{}".format(n) of a serial number: its decimal digits
Digit(d) ==
    CASE d = 0 -> "0" [] d = 1 -> "1" [] d = 2 -> "2" [] d = 3 -> "3"
      [] d = 4 -> "4" [] d = 5 -> "5" [] d = 6 -> "6" [] d = 7 -> "7"
      [] d = 8 -> "8" [] OTHER -> "9"

RECURSIVE FormatInt(_)
FormatInt(n) ==
    IF n < 10 THEN <<Digit(n)>> ELSE Append(FormatInt(n \div 10), Digit(n % 10))

\* "sphinx-data-tab-{}".format(tab_id)
DataTab(id) == <<"sphinx-data-tab-">> \o id

\* '-'.join(name.lower().split())
Slug(name) == Join(Split(Lower(name)), <<"-">>)

\* the classes of a panel: 'ui bottom attached sphinx-tab tab segment'.split(' ')
TabBaseClasses ==
    << <<"ui">>, <<"bottom">>, <<"attached">>, <<"sphinx-tab">>, <<"tab">>, <<"segment">> >>

Active == <<"active">>

Item == <<"item">>

\* ------------------------------------------------- lines and their parsing
(***************************************************************************)
(* A content line is either plain text (t = "text", its characters in s)   *)
(* or the text of a JSON object (t = "json"): then ws says whether the     *)
(* text holds any whitespace, keys are the object's keys, and tab_name,    *)
(* tab_id, classes hold the values of the keys that are present; clsok     *)
(* says whether the value of "classes" is a list.  The texts the model     *)
(* writes as plain text (letters and blanks) are never valid JSON.         *)
(***************************************************************************)
TextLine(s) ==
    [t |-> "text", s |-> s, ws |-> FALSE, keys |-> {}, tab_name |-> <<>>,
     tab_id |-> <<>>, classes |-> <<>>, clsok |-> TRUE]

JsonLine(ws, keys, tab_name, tab_id, classes, clsok) ==
    [t |-> "json", s |-> <<>>, ws |-> ws, keys |-> keys, tab_name |-> tab_name,
     tab_id |-> tab_id, classes |-> classes, clsok |-> clsok]

BlankLine == TextLine(<<>>)

\* the characters of a line, as far as the model tells them apart
RawText(line) ==
    IF line.t = "text" THEN line.s
    ELSE <<"{">>
         \o (IF "tab_name" \in line.keys THEN <<"tab_name:">> \o line.tab_name ELSE <<>>)
         \o (IF "tab_id" \in line.keys THEN <<"tab_id:">> \o line.tab_id ELSE <<>>)
         \o (IF "classes" \in line.keys THEN <<"classes:">> \o Join(line.classes, <<",">>) ELSE <<>>)
         \o <<"}">>

\* len(args.split()) == 1, args the stripped first line
OneWord(line) ==
    IF line.t = "text" THEN Len(Split(Strip(line.s))) = 1 ELSE ~line.ws

\* a dict with the keys tab_name, tab_id, classes (those in keys are present)
Args(keys, tab_name, tab_id, classes, clsok) ==
    [keys |-> keys, tab_name |-> tab_name, tab_id |-> tab_id, classes |-> classes,
     clsok |-> clsok]

\* json.loads(text): ok = FALSE stands for the ValueError it raises
JsonLoads(line) ==
    [ok |-> line.t = "json",
     args |-> Args(line.keys, line.tab_name, line.tab_id, line.classes, line.clsok)]

\* json.dumps(dict): the default separators ', ' and ': ' put a blank after
\* every key, so the text always holds whitespace
JsonDumps(args) ==
    JsonLine(TRUE, args.keys, args.tab_name, args.tab_id, args.classes, args.clsok)

\* LEXER_MAP: short name -> display name (here the one lexer the model knows)
LEXER_MAP == [k \in {<<"c">>} |-> <<"C">>]

\* ------------------------------------------------------------------ state
VARIABLES
    has_titles,     \* whether env.temp_data holds the keys tab_titles, is_first_tab
    tab_titles,     \* env.temp_data['tab_titles']: the header accumulator
    is_first_tab,   \* env.temp_data['is_first_tab']
    serialno,       \* the next value of env.new_serialno('tab_id')
    stack,          \* ids of the nodes whose directive is inside nested_parse
    nodes,          \* the nodes made so far, by id
    document,       \* ids of the nodes returned to the document's top level
    error,          \* the exception that left the build, "none" while it runs
    slugs,          \* a label and the id made of it (the label-to-id function alone)
    assets          \* the builder, the build's exception and the output directory

vars == <<has_titles, tab_titles, is_first_tab, serialno, stack, nodes, document, error,
          slugs, assets>>

\* what parsing a document leaves alone
apart == <<slugs, assets>>

\* the scratch data a directive reads and writes
Env == [has_titles |-> has_titles, tab_titles |-> tab_titles,
        is_first_tab |-> is_first_tab, serialno |-> serialno]

NoPanel == [token |-> <<>>, title |-> <<>>, classes |-> <<>>, body |-> <<>>, auto |-> FALSE]

\* the exceptions of this module's directives; all but DirectiveError (raised by
\* assert_has_content, which the parser turns into an error node of the
\* document) are not caught by the parser and end the build
DirectiveError == "DirectiveError"
ValueError == "ValueError: json"
KeyErrorTitles == "KeyError: 'tab_titles'"
KeyErrorName == "KeyError: 'tab_name'"
KeyErrorLang == "KeyError: lang"
TypeError == "TypeError: classes"

\* an exception leaves run(): the scratch data stay as they were at that point
Raise(exc, e) == [exc |-> exc, env |-> e, panel |-> NoPanel]

\* args = {'tab_name': args}
BareArgs(title) == Args({"tab_name"}, title, <<>>, <<>>, TRUE)

\* the first line of a tab, decoded: a bare title or a JSON record
TabArgs(first) == IF OneWord(first) THEN BareArgs(Strip(RawText(first))) ELSE JsonLoads(first).args

\* node['classes'] of a panel
PanelClasses(args, data_tab, first) ==
    TabBaseClasses
    \o (IF "classes" \in args.keys THEN args.classes ELSE <<>>)
    \o <<data_tab>>
    \o (IF first THEN <<Active>> ELSE <<>>)

\* env.temp_data['tab_titles'].append((data_tab, args['tab_name'])); auto is a
\* history mark: whether the id came from env.new_serialno
RegisterHeader(titles, data_tab, tab_name, auto) ==
    Append(titles, [data_tab |-> data_tab, tab_name |-> tab_name, auto |-> auto])

\* a counter that hands out the same value again
NewSerialnoStuck(e) == e

\* env.new_serialno('tab_id'): the value e.serialno is handed out
NewSerialno(e) == [e EXCEPT !.serialno = @ + 1]

\* TabDirective.run up to its nested_parse, on the content lines and the scratch
\* data e: the exception raised ("none": no exception), the scratch data then,
\* and the panel node
TabDirectiveRun(content, e) ==
    IF content = <<>> THEN Raise(DirectiveError, e)
    ELSE IF ~OneWord(content[1]) /\ ~JsonLoads(content[1]).ok THEN Raise(ValueError, e)
    ELSE
      LET args == TabArgs(content[1])
          auto == "tab_id" \notin args.keys
          e1 == IF auto THEN NewSerialno(e) ELSE e
          tab_id == IF auto THEN FormatInt(e.serialno) ELSE args.tab_id
          data_tab == DataTab(tab_id)
      IN IF ~e1.has_titles THEN Raise(KeyErrorTitles, e1)
         ELSE IF "tab_name" \notin args.keys THEN Raise(KeyErrorName, e1)
         ELSE
           LET e2 == [e1 EXCEPT !.tab_titles =
                          RegisterHeader(@, data_tab, args.tab_name, auto)]
           IN IF "classes" \in args.keys /\ ~args.clsok THEN Raise(TypeError, e2)
              ELSE [exc |-> "none",
                    env |-> [e2 EXCEPT !.is_first_tab = FALSE],
                    panel |-> [token |-> data_tab,
                               title |-> args.tab_name,
                               classes |-> PanelClasses(args, data_tab, e2.is_first_tab),
                               body |-> SubSeq(content, 3, Len(content)),
                               auto |-> auto]]

\* content.trim_start(n)
TrimStart(content, n) == SubSeq(content, n + 1, Len(content))

\* GroupTabDirective.run: the content it hands to the tab directive
GroupTabContent(content) ==
    LET group_name == RawText(content[1])
        tab_args == Args({"tab_id", "tab_name"}, group_name, Slug(group_name), <<>>, TRUE)
    IN <<JsonDumps(tab_args), BlankLine>> \o TrimStart(content, 2)

GroupTabDirectiveRun(content, e) ==
    IF content = <<>> THEN Raise(DirectiveError, e)
    ELSE TabDirectiveRun(GroupTabContent(content), e)

\* a title that keeps the language word
CodeTabNameAll(args) == Join(args, <<" ">>)

\* whether tab_name of a code-tab can be computed: LEXER_MAP[lang] raises KeyError
CodeTabHasName(args) == Len(args) > 1 \/ args[1] \in DOMAIN LEXER_MAP

\* tab_name of a code-tab: the title words, or the lexer's name
CodeTabName(args) ==
    IF Len(args) > 1 THEN Join(Tail(args), <<" ">>) ELSE LEXER_MAP[args[1]]

CodeBlockLine(lang) == TextLine(<<".. code-block:: ">> \o lang)

\* CodeTabDirective.run: the content it hands to the tab directive
CodeTabContent(content) ==
    LET args == Split(Strip(RawText(content[1])))
        tab_name == CodeTabName(args)
        tab_args == Args({"tab_id", "tab_name", "classes"}, tab_name, Slug(tab_name),
                         << <<"code-tab">> >>, TRUE)
    IN <<JsonDumps(tab_args), BlankLine, CodeBlockLine(args[1]), BlankLine>>
       \o TrimStart(content, 2)

CodeTabDirectiveRun(content, e) ==
    IF content = <<>> THEN Raise(DirectiveError, e)
    ELSE IF ~CodeTabHasName(Split(Strip(RawText(content[1])))) THEN Raise(KeyErrorLang, e)
    ELSE TabDirectiveRun(CodeTabContent(content), e)

\* the header menu TabsDirective.run builds from the accumulator
MenuEntry(idx, header) ==
    [classes |-> (IF idx > 0 THEN <<Item>> ELSE <<Active, Item>>) \o <<header.data_tab>>,
     text |-> header.tab_name,
     auto |-> header.auto]

Menu(titles) == [i \in 1..Len(titles) |-> MenuEntry(i - 1, titles[i])]

\* ----------------------------------------------------------------- inputs
\* the contents a tab directive is given: none, a bare title of one word (alone,
\* and with a body line right after it) and of two, and JSON records, spaced
\* and written without any whitespace
TabContents ==
    { <<>>,
      <<TextLine(<<"U">>)>>,
      <<TextLine(<<"U">>), TextLine(<<"x">>)>>,
      <<TextLine(<<"U", " ", "x">>)>>,
      <<JsonLine(TRUE, {"tab_name"}, <<"T">>, <<>>, <<>>, TRUE)>>,
      <<JsonLine(TRUE, {"tab_name", "tab_id"}, <<"T">>, <<"0">>, <<>>, TRUE)>>,
      <<JsonLine(TRUE, {"tab_name", "tab_id", "classes"}, <<"T">>, <<"c", "1">>, << <<"x">> >>, TRUE)>>,
      <<JsonLine(FALSE, {"tab_name", "tab_id", "classes"}, <<"T">>, <<"c", "1">>, << <<"x">> >>, TRUE)>>,
      <<JsonLine(TRUE, {"tab_id"}, <<>>, <<"0">>, <<>>, TRUE)>>,
      <<JsonLine(TRUE, {"tab_name", "classes"}, <<"T">>, <<>>, <<>>, FALSE)>> }

\* the contents a group-tab directive is given: none, and labels (one with a
\* body line right after it)
GroupTabContents ==
    { <<>>,
      <<TextLine(<<"L">>)>>,
      <<TextLine(<<"L">>), TextLine(<<"x">>)>>,
      <<TextLine(<<"l">>)>>,
      <<TextLine(<<"L", " ", " ", "x">>)>> }

\* the contents a code-tab directive is given: none, a known and an unknown
\* language, each alone and with title words, and one with a line of code
\* after a blank line and one with a line of code right after the first line
CodeTabContents ==
    { <<>>,
      <<TextLine(<<"c">>)>>,
      <<TextLine(<<"c">>), TextLine(<<"x">>)>>,
      <<TextLine(<<"z">>)>>,
      <<TextLine(<<"c", " ", "T">>)>>,
      <<TextLine(<<"z", " ", "T", " ", " ", "x">>)>>,
      <<TextLine(<<"c">>), BlankLine, TextLine(<<"x">>)>> }

\* ------------------------------------------------------------------ nodes
BlockNode ==
    [kind |-> "block", via |-> "tabs", token |-> <<>>, title |-> <<>>, classes |-> << <<"sphinx-tabs">> >>,
     menu |-> <<>>, children |-> <<>>, body |-> <<>>, auto |-> FALSE]

\* via is a history mark: the directive the panel was written with
PanelNode(panel, via) ==
    [kind |-> "panel", via |-> via, token |-> panel.token, title |-> panel.title,
     classes |-> panel.classes, menu |-> <<>>, children |-> <<>>, body |-> panel.body,
     auto |-> panel.auto]

\* the system_message the parser puts in place of a directive that raised
\* DirectiveError (assert_has_content)
ErrorNode ==
    [kind |-> "error", via |-> "", token |-> <<>>, title |-> <<>>, classes |-> <<>>,
     menu |-> <<>>, children |-> <<>>, body |-> <<>>, auto |-> FALSE]

Top == stack[Len(stack)]

InBlock == stack # <<>> /\ nodes[Top].kind = "block"
InPanel == stack # <<>> /\ nodes[Top].kind = "panel"

\* a directive's nodes go to the node whose nested_parse found the directive
Emitted(ns, stk, id) ==
    IF stk = <<>> THEN ns ELSE [ns EXCEPT ![stk[Len(stk)]].children = Append(@, id)]

EmittedDoc(stk, id) == IF stk = <<>> THEN Append(document, id) ELSE document

\* a document before its first directive: env.temp_data holds no key yet
DocInit ==
    /\ has_titles = FALSE
    /\ tab_titles = <<>>
    /\ is_first_tab = FALSE
    /\ serialno = 0
    /\ stack = <<>>
    /\ nodes = <<>>
    /\ document = <<>>
    /\ error = "none"

\* no label has been given an id
NoSlugs == [label |-> <<>>, slug |-> <<>>, done |-> FALSE]

\* no build has finished: copy_assets has not been called
NoAssets ==
    [builder |-> "html", exception |-> FALSE, called |-> FALSE, direxists |-> FALSE,
     files |-> {}, made |-> FALSE, copied |-> {}]

Init == DocInit /\ slugs = NoSlugs /\ assets = NoAssets

\* a directive that raised DirectiveError: its place takes an error node
ReportError ==
    /\ nodes' = Emitted(Append(nodes, ErrorNode), stack, Len(nodes) + 1)
    /\ document' = EmittedDoc(stack, Len(nodes) + 1)
    /\ UNCHANGED <<has_titles, tab_titles, is_first_tab, serialno, stack, error>>

\* where a tabs directive stands: at the top level of the document or in the
\* body of a panel
BlockPlaced == error = "none" /\ Len(nodes) < MaxNodes /\ (stack = <<>> \/ InPanel)

\* an accumulator that is not cleared
KeepTitles(titles) == titles

\* env.temp_data['tab_titles'] = []
ResetTitles(titles) == <<>>

\* a tabs directive that also starts the serial numbers again
TabsRunResetsSerial(hasContent) ==
    /\ BlockPlaced
    /\ UNCHANGED apart
    /\ IF ~hasContent
       THEN ReportError
       ELSE /\ Len(stack) < MaxDepth
            /\ has_titles' = TRUE
            /\ tab_titles' = ResetTitles(tab_titles)
            /\ is_first_tab' = TRUE
            /\ serialno' = 0
            /\ nodes' = Append(nodes, BlockNode)
            /\ stack' = Append(stack, Len(nodes) + 1)
            /\ UNCHANGED <<document, error>>

\* TabsDirective.run up to and with the call of nested_parse
TabsRun(hasContent) ==
    /\ BlockPlaced
    /\ UNCHANGED apart
    /\ IF ~hasContent
       THEN ReportError
       ELSE /\ Len(stack) < MaxDepth
            /\ has_titles' = TRUE
            /\ tab_titles' = ResetTitles(tab_titles)
            /\ is_first_tab' = TRUE
            /\ nodes' = Append(nodes, BlockNode)
            /\ stack' = Append(stack, Len(nodes) + 1)
            /\ UNCHANGED <<serialno, document, error>>

\* children.insert(0, tabs_node): id 0 stands for the block's own menu node
WithMenuFirst(children) == <<0>> \o children

\* TabsDirective.run from the return of nested_parse on
TabsReturn ==
    /\ error = "none"
    /\ InBlock
    /\ UNCHANGED apart
    /\ LET id == Top
           stk == SubSeq(stack, 1, Len(stack) - 1)
       IN /\ nodes' = Emitted([nodes EXCEPT ![id].menu = Menu(tab_titles),
                                            ![id].children = WithMenuFirst(@)],
                              stk, id)
          /\ document' = EmittedDoc(stk, id)
          /\ stack' = stk
    /\ UNCHANGED <<has_titles, tab_titles, is_first_tab, serialno, error>>

\* the outcome res of a tab, group-tab or code-tab directive (via) takes effect; leaf:
\* the panel's body holds no directive of this module (a code block)
PanelStart(res, via, leaf) ==
    IF res.exc = DirectiveError THEN ReportError
    ELSE IF res.exc # "none"
    THEN /\ error' = res.exc
         /\ has_titles' = res.env.has_titles
         /\ tab_titles' = res.env.tab_titles
         /\ is_first_tab' = res.env.is_first_tab
         /\ serialno' = res.env.serialno
         /\ UNCHANGED <<stack, nodes, document>>
    ELSE /\ leaf \/ Len(stack) < MaxDepth
         /\ has_titles' = res.env.has_titles
         /\ tab_titles' = res.env.tab_titles
         /\ is_first_tab' = res.env.is_first_tab
         /\ serialno' = res.env.serialno
         /\ LET id == Len(nodes) + 1
                ns == Append(nodes, PanelNode(res.panel, via))
            IN IF leaf
               THEN /\ nodes' = Emitted(ns, stack, id)
                    /\ document' = EmittedDoc(stack, id)
                    /\ stack' = stack
               ELSE /\ nodes' = ns
                    /\ document' = document
                    /\ stack' = Append(stack, id)
         /\ UNCHANGED error

\* where a tab, group-tab or code-tab stands: in a tabs block, or outside any
Placed == error = "none" /\ Len(nodes) < MaxNodes /\ (stack = <<>> \/ InBlock)

TabRun(content) ==
    Placed /\ UNCHANGED apart /\ PanelStart(TabDirectiveRun(content, Env), "tab", FALSE)

GroupTabRun(content) ==
    Placed /\ UNCHANGED apart /\ PanelStart(GroupTabDirectiveRun(content, Env), "group-tab", FALSE)

CodeTabRun(content) ==
    Placed /\ UNCHANGED apart /\ PanelStart(CodeTabDirectiveRun(content, Env), "code-tab", TRUE)

\* TabDirective.run from the return of nested_parse on (return [node])
TabReturn ==
    /\ error = "none"
    /\ InPanel
    /\ UNCHANGED apart
    /\ LET id == Top
           stk == SubSeq(stack, 1, Len(stack) - 1)
       IN /\ nodes' = Emitted(nodes, stk, id)
          /\ document' = EmittedDoc(stk, id)
          /\ stack' = stk
    /\ UNCHANGED <<has_titles, tab_titles, is_first_tab, serialno, error>>

Next ==
    \/ \E hasContent \in BOOLEAN : TabsRun(hasContent)
    \/ TabsReturn
    \/ \E content \in TabContents : TabRun(content)
    \/ \E content \in GroupTabContents : GroupTabRun(content)
    \/ \E content \in CodeTabContents : CodeTabRun(content)
    \/ TabReturn

Spec == Init /\ [][Next]_vars

\* -------------------------------------------------- reading the node tree
Ids == 1..Len(nodes)

\* the tabs blocks whose run() has returned
DoneBlocks == {b \in Ids : nodes[b].kind = "block" /\ b \notin Range(stack)}

IsPanel(c) == c # 0 /\ nodes[c].kind = "panel"

\* the panel nodes that are direct children of block b, in source order
Panels(b) == SelectSeq(nodes[b].children, IsPanel)

PanelActive(p) == Active \in Range(nodes[p].classes)

\* a header entry's token is the class appended last
HeaderToken(h) == h.classes[Len(h.classes)]

HeaderActive(h) == Active \in Range(h.classes)

\* ---------------------------------------------------------------- claims

\* C1: in every finished tabs block the menu has as many header entries as the
\* block has panels among its direct children, and the i-th header entry
\* carries the token of the i-th panel.
C1_HeadersMatchPanels ==
    \A b \in DoneBlocks :
        /\ Len(nodes[b].menu) = Len(Panels(b))
        /\ \A i \in 1..Len(nodes[b].menu) :
               i <= Len(Panels(b)) => HeaderToken(nodes[b].menu[i]) = nodes[Panels(b)[i]].token

\* C2: in every finished tabs block that has a panel, exactly one of its own
\* panels is active, and it is the first one.
C2_FirstPanelOnlyActive ==
    \A b \in DoneBlocks :
        Panels(b) # <<>> =>
            {i \in 1..Len(Panels(b)) : PanelActive(Panels(b)[i])} = {1}

\* C3: in every finished tabs block the header at position i is active exactly
\* when the panel whose token it carries is active: the panel at position i
\* when that one carries the header's token, else any panel of the block that
\* carries it.
C3_ActiveMarksAgree ==
    \A b \in DoneBlocks :
        \A i \in 1..Len(nodes[b].menu) :
            LET h == nodes[b].menu[i]
                ps == Panels(b)
            IN IF i <= Len(ps) /\ nodes[ps[i]].token = HeaderToken(h)
               THEN HeaderActive(h) <=> PanelActive(ps[i])
               ELSE HeaderActive(h) <=>
                        \E j \in 1..Len(ps) :
                            nodes[ps[j]].token = HeaderToken(h) /\ PanelActive(ps[j])

\* the panels written as group-tab
GroupPanels == {p \in Ids : nodes[p].kind = "panel" /\ nodes[p].via = "group-tab"}

\* C4 (tokens): two group-tab panels with the same label carry the same token,
\* the prefix followed by the slug of the label.
GroupTokensShared ==
    \A p \in GroupPanels :
        /\ nodes[p].token = DataTab(Slug(nodes[p].title))
        /\ \A q \in GroupPanels : nodes[p].title = nodes[q].title => nodes[p].token = nodes[q].token

\* C4 (active): a group-tab panel of a finished block is active exactly when it
\* is the first panel of that block.
GroupActiveByPosition ==
    \A b \in DoneBlocks :
        \A i \in 1..Len(Panels(b)) :
            Panels(b)[i] \in GroupPanels => (PanelActive(Panels(b)[i]) <=> i = 1)

\* C4: group-tabs with the same label text share one token, and each is active
\* exactly by its position in its own block (the first one of a block is).
C4_GroupTabs == GroupTokensShared /\ GroupActiveByPosition

\* C5: within one tabs block no two header entries carry the same token.
C5_TokensUnique ==
    \A b \in DoneBlocks :
        \A i, j \in 1..Len(nodes[b].menu) :
            i # j => HeaderToken(nodes[b].menu[i]) # HeaderToken(nodes[b].menu[j])

\* C5 (amended): within one tabs block no two header entries whose id was drawn
\* from the serial number carry the same token.
C5_AutoTokensUnique ==
    \A b \in DoneBlocks :
        \A i, j \in 1..Len(nodes[b].menu) :
            (i # j /\ nodes[b].menu[i].auto /\ nodes[b].menu[j].auto)
                => HeaderToken(nodes[b].menu[i]) # HeaderToken(nodes[b].menu[j])

\* C5 witness: a finished block with two headers of auto ids and a third header
\* that repeats the token of one of them
C5_Witness ==
    \E b \in DoneBlocks :
        \E i, j, k \in 1..Len(nodes[b].menu) :
            /\ i # j /\ nodes[b].menu[i].auto /\ nodes[b].menu[j].auto
            /\ ~nodes[b].menu[k].auto
            /\ HeaderToken(nodes[b].menu[k]) = HeaderToken(nodes[b].menu[i])

\* C6: a tab, group-tab or code-tab that fails inside a tabs block does not
\* end the build: no exception leaves the build while a tabs block is the
\* innermost open directive.
C6_ErrorsIsolated == ~(error # "none" /\ InBlock)

\* the node a step has added
NewNode == nodes'[Len(nodes')]

LastHeader == tab_titles'[Len(tab_titles')]

\* a step that has added a panel with this title and registered its header
AddsPanelTitled(title) ==
    /\ error' = "none"
    /\ Len(nodes') = Len(nodes) + 1
    /\ NewNode.kind = "panel"
    /\ NewNode.title = title
    /\ Len(tab_titles') = Len(tab_titles) + 1
    /\ LastHeader.tab_name = title

\* C7: a code-tab with title words takes them, joined by single blanks, as its
\* title and does not fail on an unknown language; without title words a known
\* language gives the table's name, and an unknown one fails with the lookup's
\* error and produces no panel and no header.  (A panel is produced when the
\* header accumulator exists.)
C7_CodeTabTitle ==
    [][\A content \in CodeTabContents :
          (content # <<>> /\ CodeTabRun(content)) =>
              LET words == Split(content[1].s)
              IN IF Len(words) > 1
                 THEN /\ error' # KeyErrorLang
                      /\ has_titles => AddsPanelTitled(Join(Tail(words), <<" ">>))
                 ELSE IF words[1] \in DOMAIN LEXER_MAP
                 THEN has_titles => AddsPanelTitled(LEXER_MAP[words[1]])
                 ELSE /\ error' = KeyErrorLang
                      /\ nodes' = nodes
                      /\ tab_titles' = tab_titles]_vars

\* C7 witness: a code-tab panel of the unknown language z, titled by its title
\* words "T  x" joined by one blank
C7_Witness ==
    \E p \in Ids :
        /\ nodes[p].kind = "panel" /\ nodes[p].via = "code-tab"
        /\ nodes[p].title = <<"T", " ", "x">>
        /\ nodes[p].body[1] = CodeBlockLine(<<"z">>)

\* C8: a tab in a tabs block whose first line is a bare title (of one word or
\* of several) succeeds, registers that title, and takes the prefix followed by
\* a fresh auto id as its token.
C8_BareTitle ==
    [][\A content \in TabContents :
          (content # <<>> /\ content[1].t = "text" /\ InBlock /\ TabRun(content)) =>
              /\ AddsPanelTitled(Strip(content[1].s))
              /\ NewNode.token = DataTab(FormatInt(serialno))
              /\ serialno' = serialno + 1]_vars

\* C9: a tab in a tabs block whose first line is a JSON record with tab_name
\* (spaced or not) takes tab_name as its title, the prefix followed by tab_id
\* as its token when tab_id is given, and as classes the base classes, the
\* supplied classes, the token, and 'active' when it is the first panel of the
\* block.
C9_StructuredRecord ==
    [][\A content \in TabContents :
          (/\ content # <<>>
           /\ content[1].t = "json"
           /\ "tab_name" \in content[1].keys
           /\ content[1].clsok
           /\ InBlock
           /\ TabRun(content)) =>
              /\ AddsPanelTitled(content[1].tab_name)
              /\ "tab_id" \in content[1].keys => NewNode.token = DataTab(content[1].tab_id)
              /\ NewNode.classes =
                     TabBaseClasses
                     \o (IF "classes" \in content[1].keys THEN content[1].classes ELSE <<>>)
                     \o <<NewNode.token>>
                     \o (IF Panels(Top) = <<>> THEN <<Active>> ELSE <<>>)]_vars

\* C10: a tabs directive without content fails with the content-required error
\* and leaves the scratch data alone; a tabs block in which no panel was
\* produced returns without an error, with the menu as its first child and no
\* entry in the menu.
C10_EmptyBlocks ==
    [][/\ TabsRun(FALSE) =>
              /\ UNCHANGED <<has_titles, tab_titles, is_first_tab, serialno, stack, error>>
              /\ Len(nodes') = Len(nodes) + 1
              /\ NewNode.kind = "error"
       /\ (TabsReturn /\ Panels(Top) = <<>>) =>
              /\ error' = "none"
              /\ nodes'[Top].menu = <<>>
              /\ nodes'[Top].children[1] = 0
              /\ Top \notin Range(stack')]_vars

\* C10 witness: a finished block without a panel and with an empty menu, after
\* a finished block that has headers, and an error node in the document
C10_Witness ==
    \E b1, b2 \in DoneBlocks :
        /\ b1 < b2
        /\ nodes[b1].menu # <<>>
        /\ Panels(b2) = <<>> /\ nodes[b2].menu = <<>> /\ nodes[b2].children[1] = 0
        /\ \E n \in Ids : nodes[n].kind = "error"

\* the panels whose id was drawn from the serial number, in invocation order
AutoPanels == {p \in Ids : nodes[p].kind = "panel" /\ nodes[p].auto}

\* C11: the auto ids handed out in one document are pairwise distinct and grow
\* strictly in invocation order, across all tabs blocks: each auto panel carries
\* the decimal text of a serial number below the counter, a later panel a
\* greater one, and no step lowers the counter.
C11_AutoIdsIncrease ==
    /\ [](\A p \in AutoPanels :
             /\ \E k \in 0..(serialno - 1) : nodes[p].token = DataTab(FormatInt(k))
             /\ \A q \in AutoPanels :
                    p < q =>
                        /\ nodes[p].token # nodes[q].token
                        /\ \E k \in 0..(serialno - 1) :
                               \E m \in (k + 1)..(serialno - 1) :
                                   /\ nodes[p].token = DataTab(FormatInt(k))
                                   /\ nodes[q].token = DataTab(FormatInt(m)))
    /\ [][serialno' >= serialno]_vars

\* C11 witness: two auto panels in two tabs blocks, the later one with id 1
C11_Witness ==
    \E p, q \in AutoPanels :
        \E b \in DoneBlocks :
            /\ p < b /\ b < q
            /\ nodes[p].token = DataTab(<<"0">>)
            /\ nodes[q].token = DataTab(<<"1">>)

\* the positions of the stack that hold a tabs block
OpenBlocks == {i \in 1..Len(stack) : nodes[stack[i]].kind = "block"}

\* the acting directive does not belong to the outermost open block: a
\* directive in the body of one of its panels, or of a block nested there
Nested == OpenBlocks # {} /\ (InPanel \/ Cardinality(OpenBlocks) >= 2)

\* C14: while a tabs block is open, its accumulator and its first-panel flag
\* are changed by its own panel directives only: a step of a tabs block nested
\* in one of its panels, or of that block's panels, leaves both alone.
C14_OuterStateFramed ==
    [][Nested => (tab_titles' = tab_titles /\ is_first_tab' = is_first_tab)]_vars

\* a step of a tab, group-tab or code-tab directive
PanelDirectiveStep ==
    \/ \E content \in TabContents : TabRun(content)
    \/ \E content \in GroupTabContents : GroupTabRun(content)
    \/ \E content \in CodeTabContents : CodeTabRun(content)

\* C15: once a tabs block has finished, a tab, group-tab or code-tab outside
\* any tabs block finds nothing of it: it does not append to the header
\* accumulator the block left, and it is not marked active.
C15_StateDiscarded ==
    [][(stack = <<>> /\ has_titles /\ PanelDirectiveStep) =>
          /\ tab_titles' = tab_titles
          /\ (Len(nodes') = Len(nodes) + 1 /\ NewNode.kind = "panel")
                 => Active \notin Range(NewNode.classes)]_vars

\* the nodes below node n: what the nested parse of n and of the nodes in it
\* has produced
RECURSIVE Below(_)
Below(n) ==
    LET cs == Range(nodes[n].children) \ {0}
    IN cs \cup UNION {Below(c) : c \in cs}

\* the panels made while block b was open: each registered one header
PanelsBelow(b) == {p \in Below(b) : nodes[p].kind = "panel"}

\* the i-th of a set of ids, in the order the ids were given out
Nth(S, i) == CHOOSE p \in S : Cardinality({q \in S : q <= p}) = i

\* C16 (layout): the menu is the first child of a finished block, and the
\* nodes of the nested parse follow in source order.
MenuFirstThenSourceOrder ==
    \A b \in DoneBlocks :
        LET cs == nodes[b].children
        IN /\ cs[1] = 0
           /\ \A i \in 2..Len(cs) : cs[i] # 0 /\ (i > 2 => cs[i - 1] < cs[i])

\* C16 (classes): the entry at position 0 carries 'active', 'item' and its
\* token, every other entry 'item' and its token.
MenuEntryClasses ==
    \A b \in DoneBlocks :
        \A i \in 1..Len(nodes[b].menu) :
            LET cl == nodes[b].menu[i].classes
            IN /\ SubSeq(cl, 1, Len(cl) - 1) = (IF i = 1 THEN <<Active, Item>> ELSE <<Item>>)
               /\ cl[Len(cl)][1] = "sphinx-data-tab-"

\* C16 (entries): the menu holds one entry per header registered since the
\* block's reset, in registration order.
MenuIsWhatWasRegistered ==
    \A b \in DoneBlocks :
        /\ Len(nodes[b].menu) = Cardinality(PanelsBelow(b))
        /\ \A i \in 1..Len(nodes[b].menu) :
               i <= Cardinality(PanelsBelow(b)) =>
                   /\ HeaderToken(nodes[b].menu[i]) = nodes[Nth(PanelsBelow(b), i)].token
                   /\ nodes[b].menu[i].text = nodes[Nth(PanelsBelow(b), i)].title

\* C16: the composite of a finished tabs block is the menu followed by the
\* nodes of the nested parse in source order; the menu holds one entry per
\* header registered since the block's reset, in registration order, each with
\* the classes 'item' (after 'active' at position 0 only) and then its token.
C16_CompositeAndMenu ==
    MenuFirstThenSourceOrder /\ MenuEntryClasses /\ MenuIsWhatWasRegistered

\* C18: a tab directive in a tabs block that ends in an error (no content, an
\* unparsable record, a record without tab_name, a classes value that is not a
\* list) leaves the scratch data as it found them: no header appended, the
\* first-panel flag and the serial number unchanged.
C18_FailedTabLeavesTracker ==
    [][\A content \in TabContents :
          (/\ InBlock
           /\ TabRun(content)
           /\ \/ error' # "none"
              \/ (Len(nodes') = Len(nodes) + 1 /\ NewNode.kind = "error")) =>
              UNCHANGED <<has_titles, tab_titles, is_first_tab, serialno>>]_vars

\* the lines of a fragment that are not blank
IsText(line) == line # BlankLine

NonBlank(lines) == SelectSeq(lines, IsText)

\* a step that has added a panel
AddsPanel == error' = "none" /\ Len(nodes') = Len(nodes) + 1 /\ NewNode.kind = "panel"

\* C17: every content line after the first line of a tab, group-tab or code-tab
\* is in the panel's body (for a code-tab: in the code block, after the
\* code-block line), in order, also when the second line is not blank.
C17_BodyCarried ==
    [][/\ \A content \in TabContents :
              (content # <<>> /\ TabRun(content) /\ AddsPanel) =>
                  NonBlank(NewNode.body) = NonBlank(Tail(content))
       /\ \A content \in GroupTabContents :
              (content # <<>> /\ GroupTabRun(content) /\ AddsPanel) =>
                  NonBlank(NewNode.body) = NonBlank(Tail(content))
       /\ \A content \in CodeTabContents :
              (content # <<>> /\ CodeTabRun(content) /\ AddsPanel) =>
                  /\ NewNode.body[1] = CodeBlockLine(Split(content[1].s)[1])
                  /\ NonBlank(Tail(NewNode.body)) = NonBlank(Tail(content))]_vars

\* C17 (blank second line): the same for contents whose second line is blank
\* or missing.
BodyCarriedAfterBlank ==
    [][/\ \A content \in TabContents \cup GroupTabContents :
              (/\ content # <<>>
               /\ (Len(content) > 1 => content[2] = BlankLine)
               /\ (TabRun(content) \/ GroupTabRun(content))
               /\ AddsPanel) =>
                  NonBlank(NewNode.body) = NonBlank(Tail(content))
       /\ \A content \in CodeTabContents :
              (/\ content # <<>>
               /\ (Len(content) > 1 => content[2] = BlankLine)
               /\ CodeTabRun(content)
               /\ AddsPanel) =>
                  /\ NewNode.body[1] = CodeBlockLine(Split(content[1].s)[1])
                  /\ NonBlank(Tail(NewNode.body)) = NonBlank(Tail(content))]_vars

\* ------------------------------------------------- the label-to-id function
(***************************************************************************)
(* '-'.join(name.lower().split()) on its own: a label is drawn, and then   *)
(* edited in the ways that change only the case of a letter or the length  *)
(* and position of its whitespace; the id is computed again at every step. *)
(***************************************************************************)
doc == <<has_titles, tab_titles, is_first_tab, serialno, stack, nodes, document, error>>

Whitespace == {" ", "\t"}

SlugChars == {"L", "l", "-", "DSC", "Sigma", "sigma", "fsigma"} \cup Whitespace

MyExample == <<"M", "y", " ", "E", "x", "a", "m", "p", "l", "e">>

MyExampleWide == <<"m", "y", " ", " ", " ", "e", "x", "a", "m", "p", "l", "e">>

Labels ==
    UNION {[1..n -> SlugChars] : n \in 0..MaxLabelLen} \cup {MyExample, MyExampleWide}

\* the letters with two cases: an upper-case form and a lower-case form of it
Letters ==
    {<<"L", "l">>, <<"M", "m">>, <<"E", "e">>, <<"Sigma", "sigma">>, <<"Sigma", "fsigma">>}

\* c and d are one letter in different cases
SameLetter(c, d) == <<c, d>> \in Letters \/ <<d, c>> \in Letters

\* str.isupper() of one character
IsUpperChar(c) == c \in {"L", "C", "T", "U", "M", "E", "Sigma", "DSC"}

\* a label and the id the directives make of it
SlugOf(label) == [label |-> label, slug |-> Slug(label), done |-> TRUE]

SlugInit ==
    /\ DocInit
    /\ assets = NoAssets
    /\ slugs \in {[NoSlugs EXCEPT !.label = l] : l \in Labels}

\* tab_id = '-'.join(group_name.lower().split())
MakeId ==
    /\ ~slugs.done
    /\ slugs' = SlugOf(slugs.label)
    /\ UNCHANGED <<doc, assets>>

\* one letter of the label changes its case
ChangeCase ==
    /\ slugs.done
    /\ \E i \in 1..Len(slugs.label) : \E c \in {l[1] : l \in Letters} \cup {l[2] : l \in Letters} :
           /\ SameLetter(c, slugs.label[i])
           /\ slugs' = SlugOf([slugs.label EXCEPT ![i] = c])
    /\ UNCHANGED <<doc, assets>>

\* a run of whitespace grows, or one appears in front of or behind the label
InsertSpace ==
    /\ slugs.done
    /\ Len(slugs.label) < MaxLabelLen
    /\ \E i \in 0..Len(slugs.label) : \E c \in Whitespace :
           /\ \/ i = 0
              \/ i = Len(slugs.label)
              \/ i >= 1 /\ IsSpace(slugs.label[i])
              \/ i < Len(slugs.label) /\ IsSpace(slugs.label[i + 1])
           /\ slugs' = SlugOf(SubSeq(slugs.label, 1, i) \o <<c>>
                              \o SubSeq(slugs.label, i + 1, Len(slugs.label)))
    /\ UNCHANGED <<doc, assets>>

\* a run of whitespace shrinks, or one in front of or behind the label goes
RemoveSpace ==
    /\ slugs.done
    /\ \E i \in 1..Len(slugs.label) :
           /\ IsSpace(slugs.label[i])
           /\ \/ i = 1
              \/ i = Len(slugs.label)
              \/ i > 1 /\ IsSpace(slugs.label[i - 1])
              \/ i < Len(slugs.label) /\ IsSpace(slugs.label[i + 1])
           /\ slugs' = SlugOf(SubSeq(slugs.label, 1, i - 1)
                              \o SubSeq(slugs.label, i + 1, Len(slugs.label)))
    /\ UNCHANGED <<doc, assets>>

SlugNext == MakeId \/ ChangeCase \/ InsertSpace \/ RemoveSpace

SpecSlug == SlugInit /\ [][SlugNext]_vars

MyExampleSlug == <<"m", "y", "-", "e", "x", "a", "m", "p", "l", "e">>

\* the id holds no whitespace and no upper-case letter
SlugNoSpaceNoUpper ==
    \A i \in 1..Len(slugs.slug) : ~IsSpace(slugs.slug[i]) /\ ~IsUpperChar(slugs.slug[i])

\* the id of an id is that id
SlugIdempotent == Slug(slugs.slug) = slugs.slug

SlugExamples ==
    (slugs.done /\ slugs.label \in {MyExample, MyExampleWide}) => slugs.slug = MyExampleSlug

\* labels that differ in case or in whitespace only give one id
SlugSameForVariants == [][slugs.done => slugs'.slug = slugs.slug]_vars

\* C12: the label-to-id function gives, for every label, an id without
\* whitespace and without upper-case letters; labels that differ only in the
\* case of letters or in the length and position of whitespace runs give the
\* same id; the id of an id is that id; "My Example" and "my   example" both
\* give "my-example".
C12_SlugNormalizes ==
    /\ [](SlugNoSpaceNoUpper /\ SlugIdempotent /\ SlugExamples)
    /\ SlugSameForVariants

\* a label of Latin letters, hyphens and whitespace
Plain(label) == \A i \in 1..Len(label) : label[i] \notin {"DSC", "Sigma", "sigma", "fsigma"}

\* the same, for the labels of Latin letters, hyphens and whitespace
PlainSlugNormalizes ==
    /\ [](Plain(slugs.label) => (SlugNoSpaceNoUpper /\ SlugIdempotent /\ SlugExamples))
    /\ [][(slugs.done /\ Plain(slugs.label)) => slugs'.slug = slugs.slug]_vars

\* ------------------------------------------------------------- copy_assets
(***************************************************************************)
(* copy_assets(app, exception), the handler of 'build-finished', on its    *)
(* own: a build of some builder has ended, with or without an exception,   *)
(* and the directory _static/sphinx_tabs of the output may exist already   *)
(* and hold some of the files.  assets.made says whether the handler made  *)
(* the directory, assets.copied which files it copied.                     *)
(***************************************************************************)
FILES == {"tabs.js", "tabs.css"}

\* the names app.builder.name may have
BuilderNames ==
    {"html", "readthedocs", "readthedocssinglehtmllocalmedia", "dirhtml", "singlehtml",
     "latex", "text", "epub", "man"}

\* the builders, were every builder that writes HTML pages among them
buildersOfHtml ==
    {"html", "readthedocs", "readthedocssinglehtmllocalmedia", "dirhtml", "singlehtml"}

\* builders = ('html', 'readthedocs', 'readthedocssinglehtmllocalmedia')
builders == {"html", "readthedocs", "readthedocssinglehtmllocalmedia"}

AssetsInit ==
    /\ DocInit
    /\ slugs = NoSlugs
    /\ \E b \in BuilderNames : \E e \in BOOLEAN : \E d \in BOOLEAN : \E f \in SUBSET FILES :
           /\ d \/ f = {}
           /\ assets = [NoAssets EXCEPT !.builder = b, !.exception = e,
                                        !.direxists = d, !.files = f]

\* copy_assets(app, exception), from the state a of the build and its output
copy_assets(a) ==
    IF a.builder \notin builders
    THEN [a EXCEPT !.called = TRUE]
    ELSE IF a.exception
    THEN [a EXCEPT !.called = TRUE]
    ELSE [a EXCEPT !.called = TRUE,
                   !.made = ~a.direxists,
                   !.direxists = TRUE,
                   !.files = a.files \cup FILES,
                   !.copied = FILES]

\* the build ends: 'build-finished' calls the handler once
CopyAssets ==
    /\ ~assets.called
    /\ assets' = copy_assets(assets)
    /\ UNCHANGED <<doc, slugs>>

AssetsNext == CopyAssets

SpecAssets == AssetsInit /\ [][AssetsNext]_vars

\* C13: copy_assets copies tabs.js and tabs.css into the output directory
\* if and only if the builder is html, readthedocs or
\* readthedocssinglehtmllocalmedia and the build reports no exception; in
\* every other case it copies nothing and makes no directory.
C13_CopyAssets ==
    [][CopyAssets =>
          IF /\ assets.builder \in {"html", "readthedocs", "readthedocssinglehtmllocalmedia"}
             /\ ~assets.exception
          THEN /\ assets'.copied = {"tabs.js", "tabs.css"}
               /\ assets'.direxists
               /\ {"tabs.js", "tabs.css"} \subseteq assets'.files
          ELSE /\ assets'.copied = {}
               /\ ~assets'.made
               /\ assets'.direxists = assets.direxists
               /\ assets'.files = assets.files]_vars

C13_Witness ==
    /\ assets.called /\ assets.builder = "readthedocs" /\ ~assets.exception
    /\ assets.made /\ assets.copied = {"tabs.js", "tabs.css"}
    /\ assets.files = {"tabs.js", "tabs.css"}

====
